---- MODULE Spec2Model ----
(***************************************************************************)
(* Model of the MT5 history loader: the indicator pipeline                 *)
(* (calculate_indicators), the support/resistance engine                   *)
(* (calculate_sr_levels, count_touches) and the load_history driver of     *)
(* src/stam.py and src/TradingPlatforms/load_history.py.                   *)
(*                                                                         *)
(* Numbers.  Prices are integers (points).  Every derived quantity (ATR,   *)
(* slack, rejection, candidate levels, stored SR levels) is an exact       *)
(* rational [n, d] with d > 0, kept in lowest terms; d = 0 stands for the  *)
(* floating point NaN.  Floating point rounding is not modelled.           *)
(***************************************************************************)
EXTENDS Integers, Sequences, FiniteSets, TLC

VARIABLES
    df,          \* the working DataFrame: a sequence of rows (row i of the code is df[i+1])
    df_in,       \* the frame handed to calculate_indicators (it works on a sorted copy)
    cols,        \* the price columns present in df
    sr_params,   \* the sr_params dictionary handed to calculate_sr_levels
    pc,          \* position of the running script
    i,           \* loop index of calculate_sr_levels
    err,         \* the exception raised, "none" when there is none
    file,        \* the rows persisted for this symbol/timeframe (<<>>: no file)
    df_existing, \* the rows load_history read from the file at the start of the run
    run,         \* number of the load_history run
    script,      \* which script runs: "stam", "TradingPlatforms", or "direct" calls
    atr_warmup,  \* what the ta library writes in the ATR warm-up rows (0 or NaN)
    query,       \* arguments of a direct count_touches call
    touches,     \* its results
    server       \* the MT5Server class of TradingPlatforms/main.py and its instance

vars == <<df, df_in, cols, sr_params, pc, i, err, file, df_existing, run, script,
          atr_warmup, query, touches, server>>

\* Variables only load_history, the library or a direct count_touches call write
env == <<df_in, df_existing, run, script, atr_warmup, query, touches, server>>

---------------------------------------------------------------------------
(* Exact rational arithmetic *)

Abs(x) == IF x < 0 THEN -x ELSE x

RECURSIVE GCD(_, _)
GCD(a, b) == IF b = 0 THEN a ELSE GCD(b, a % b)

Rat(n, d) ==
    LET g == GCD(Abs(n), Abs(d))
        s == IF d < 0 THEN -1 ELSE 1
    IN  [n |-> s * (n \div g), d |-> s * (d \div g)]

FromInt(x) == [n |-> x, d |-> 1]
Zero == [n |-> 0, d |-> 1]
NaN == [n |-> 0, d |-> 0]
IsNaN(a) == a.d = 0

RAdd(a, b) == Rat(a.n * b.d + b.n * a.d, a.d * b.d)
RSub(a, b) == Rat(a.n * b.d - b.n * a.d, a.d * b.d)
RMulInt(a, k) == Rat(a.n * k, a.d)
RDivInt(a, k) == Rat(a.n, a.d * k)
RLt(a, b) == a.n * b.d < b.n * a.d
RLe(a, b) == a.n * b.d <= b.n * a.d
RAbs(a) == [n |-> Abs(a.n), d |-> a.d]

---------------------------------------------------------------------------
(* SR parameters *)

period_for_sr == 100
touches_for_sr == 3
slack_for_sr_atr_div == 10
atr_rejection_multiplier == 1
min_height_of_sr_distance == 3
max_height_of_sr_distance == 30

SR_PARAMS ==
    [period_for_sr |-> period_for_sr,
     touches_for_sr |-> touches_for_sr,
     slack_for_sr_atr_div |-> slack_for_sr_atr_div,
     atr_rejection_multiplier |-> atr_rejection_multiplier,
     min_height_of_sr_distance |-> min_height_of_sr_distance,
     max_height_of_sr_distance |-> max_height_of_sr_distance]

---------------------------------------------------------------------------
(* MT5Server of TradingPlatforms/main.py *)

MaxAccounts == 2
MaxConstructions == 4
MaxShutdowns == 2

Accounts == 1 .. MaxAccounts

\* The class before any construction.  _instance, _initialized and _account_number
\* are the fields of the code (the password and the server name are stored with
\* the account number); objects counts the objects __new__ has created, and
\* initialize_calls, login_calls, initialize_ok and constructed (the account
\* arguments of the constructions) record the calls since the last shutdown_mt5.
NoServer ==
    [_instance |-> FALSE, _initialized |-> FALSE, _account_number |-> 0, objects |-> 0,
     initialize_calls |-> 0, login_calls |-> 0, initialize_ok |-> FALSE,
     constructed |-> <<>>, shutdowns |-> 0]

\* __new__: the stored instance, created on the first call with _initialized = False
MT5Server_new(s) ==
    IF s._instance THEN s
    ELSE [s EXCEPT !._instance = TRUE, !._initialized = FALSE, !.objects = @ + 1]

MT5Server_init_Always(s, account_number, initialize_ok) ==
    [s EXCEPT !._initialized = TRUE,
              !._account_number = account_number,
              !.initialize_calls = @ + 1,
              !.initialize_ok = initialize_ok,
              !.login_calls = IF initialize_ok THEN @ + 1 ELSE @]

\* __init__: when not yet initialized, set the flag, store the account, call
\* mt5.initialize and, unless that failed and raised, mt5.login
MT5Server_init(s, account_number, initialize_ok) ==
    IF s._initialized THEN s
    ELSE [s EXCEPT !._initialized = TRUE,
                   !._account_number = account_number,
                   !.initialize_calls = @ + 1,
                   !.initialize_ok = initialize_ok,
                   !.login_calls = IF initialize_ok THEN @ + 1 ELSE @]

\* MT5Server(account_number, password, server_name): __new__, then __init__
MT5Server_construct ==
    /\ pc = "serving"
    /\ Len(server.constructed) < MaxConstructions
    /\ \E account_number \in Accounts, initialize_ok \in BOOLEAN :
          server' = [MT5Server_init(MT5Server_new(server), account_number, initialize_ok)
                        EXCEPT !.constructed = Append(@, account_number)]
    /\ UNCHANGED <<df, df_in, cols, sr_params, pc, i, err, file, df_existing, run, script,
                   atr_warmup, query, touches>>

\* shutdown_mt5, a method of the instance
shutdown_mt5 ==
    /\ pc = "serving"
    /\ server._instance
    /\ server.shutdowns < MaxShutdowns
    /\ server' = [server EXCEPT !._initialized = FALSE,
                                !.initialize_calls = 0, !.login_calls = 0,
                                !.initialize_ok = FALSE, !.constructed = <<>>,
                                !.shutdowns = @ + 1]
    /\ UNCHANGED <<df, df_in, cols, sr_params, pc, i, err, file, df_existing, run, script,
                   atr_warmup, query, touches>>

---------------------------------------------------------------------------
(* Rows *)

PriceColumns == {"open", "high", "low", "close"}

\* The moving averages that are compared with the close
MaLabels == {"MA_7", "MA_21", "MA_50"}

\* A row whose SR columns do not exist yet: in a concatenated frame they read NaN.
\* bad: the open of the row is malformed (not a number).
Row(t, o, h, l, c, atr, bad) ==
    [time |-> t, open |-> o, high |-> h, low |-> l, close |-> c,
     bad |-> bad, ATR |-> atr,
     MA |-> [label \in MaLabels |-> NaN],
     MA_comp |-> [label \in MaLabels |-> "nan"],
     upper_sr |-> NaN, lower_sr |-> NaN,
     prev_upper_sr_level |-> NaN, prev_lower_sr_level |-> NaN]

\* A bar as copy_rates_range delivers it
Bar(t, b) == Row(t, b.open, b.high, b.low, b.close, NaN, FALSE)

\* Bars with low <= open, close <= high and prices in 0 .. maxp
BarShapes(maxp) ==
    {b \in [open : 0 .. maxp, high : 0 .. maxp, low : 0 .. maxp, close : 0 .. maxp] :
        /\ b.low <= b.open /\ b.open <= b.high
        /\ b.low <= b.close /\ b.close <= b.high}

\* A bar that has just opened
Doji(x) == [open |-> x, high |-> x, low |-> x, close |-> x]

---------------------------------------------------------------------------
(* calculate_indicators *)

RECURSIVE SortByTime_Descending(_)
SortByTime_Descending(d) ==
    IF d = <<>> THEN <<>>
    ELSE LET m == CHOOSE j \in 1 .. Len(d) : \A k \in 1 .. Len(d) : d[j].time >= d[k].time
         IN  <<d[m]>> \o SortByTime_Descending(SubSeq(d, 1, m - 1) \o SubSeq(d, m + 1, Len(d)))

\* df.sort_values(by='time').reset_index(drop=True), the times being distinct
RECURSIVE SortByTime(_)
SortByTime(d) ==
    IF d = <<>> THEN <<>>
    ELSE LET m == CHOOSE j \in 1 .. Len(d) : \A k \in 1 .. Len(d) : d[j].time <= d[k].time
         IN  <<d[m]>> \o SortByTime(SubSeq(d, 1, m - 1) \o SubSeq(d, m + 1, Len(d)))

\* Window of the ATR (14 in the scripts)
AtrWindow == 2

Max2(a, b) == IF a > b THEN a ELSE b

TrueRange_NextClose(d, k) ==
    IF k = Len(d) THEN d[k].high - d[k].low
    ELSE Max2(d[k].high - d[k].low,
              Max2(Abs(d[k].high - d[k + 1].close), Abs(d[k].low - d[k + 1].close)))

\* ta.volatility.AverageTrueRange: the true range of row k, against close.shift(1)
TrueRange(d, k) ==
    IF k = 1 THEN d[1].high - d[1].low
    ELSE Max2(d[k].high - d[k].low,
              Max2(Abs(d[k].high - d[k - 1].close), Abs(d[k].low - d[k - 1].close)))

RECURSIVE SumTrueRange(_, _)
SumTrueRange(d, k) == IF k = 0 THEN 0 ELSE TrueRange(d, k) + SumTrueRange(d, k - 1)

\* Wilder's average: the mean of the first AtrWindow true ranges, then
\* atr[k] = (atr[k-1] * (window - 1) + tr[k]) / window; the rows before are warm-up
RECURSIVE AverageTrueRange(_, _, _)
AverageTrueRange(d, k, warmup) ==
    IF k < AtrWindow THEN warmup
    ELSE IF k = AtrWindow THEN Rat(SumTrueRange(d, AtrWindow), AtrWindow)
    ELSE RDivInt(RAdd(RMulInt(AverageTrueRange(d, k - 1, warmup), AtrWindow - 1),
                      FromInt(TrueRange(d, k))), AtrWindow)

\* Windows of the moving averages (7, 21 and 50 in the scripts)
MaWindow(label) == CASE label = "MA_7" -> 2 [] label = "MA_21" -> 3 [] label = "MA_50" -> 4

RECURSIVE SumClose(_, _, _)
SumClose(d, from, to) == IF from > to THEN 0 ELSE d[to].close + SumClose(d, from, to - 1)

\* ta.trend.SMAIndicator: the mean of the last window closes, NaN while the window
\* is not full
sma_indicator(d, k, window) ==
    IF k < window THEN NaN ELSE Rat(SumClose(d, k - window + 1, k), window)

\* np.where(close > ma, 'above', np.where(close < ma, 'below', 'equal')); a
\* comparison with NaN is False
MaComp(close, ma) ==
    IF ~IsNaN(ma) /\ RLt(ma, FromInt(close)) THEN "above"
    ELSE IF ~IsNaN(ma) /\ RLt(FromInt(close), ma) THEN "below"
    ELSE "equal"

\* The frame calculate_indicators returns: sorted, with the ATR, the moving
\* averages and their comparison columns
WithIndicators(d, warmup) ==
    LET sorted == SortByTime(d)
    IN  [k \in 1 .. Len(sorted) |->
            [sorted[k] EXCEPT
                !.ATR = AverageTrueRange(sorted, k, warmup),
                !.MA = [l \in MaLabels |-> sma_indicator(sorted, k, MaWindow(l))],
                !.MA_comp = [l \in MaLabels |->
                               MaComp(sorted[k].close,
                                      sma_indicator(sorted, k, MaWindow(l)))]]]

calculate_indicators_raise ==
    /\ pc = "ci_call"
    /\ ~(PriceColumns \subseteq cols)
    /\ err' = "ValueError"
    /\ pc' = "ci_raised"
    /\ UNCHANGED <<df, cols, sr_params, i, file, env>>

calculate_indicators_return ==
    /\ pc = "ci_call"
    /\ PriceColumns \subseteq cols
    /\ df' = WithIndicators(df, atr_warmup)
    /\ pc' = "ci_returned"
    /\ UNCHANGED <<cols, sr_params, i, err, file, env>>

\* The ta library fills atr[window - 1] of an array of len(df) entries: on a frame
\* shorter than the window some versions of the library raise, others return
calculate_indicators_short ==
    /\ pc = "ci_call"
    /\ PriceColumns \subseteq cols
    /\ Len(df) < AtrWindow
    /\ err' = "IndexError"
    /\ pc' = "ci_raised"
    /\ UNCHANGED <<df, cols, sr_params, i, file, env>>

---------------------------------------------------------------------------
(* count_touches *)

\* high_price > current_hline (upper), low_price < current_hline (lower)
Pierces(below, above) == RLt(below, above)

NearMiss_NoDistance(candle_size, distance, uRejectionFromSR) ==
    RLt(uRejectionFromSR, candle_size)

NearMiss_SmallCandle(candle_size, distance, uRejectionFromSR) ==
    /\ RLt(candle_size, uRejectionFromSR)
    /\ RLt(distance, RDivInt(uRejectionFromSR, 2))

NearMiss_FarFromLevel(candle_size, distance, uRejectionFromSR) ==
    /\ RLt(uRejectionFromSR, candle_size)
    /\ RLt(RDivInt(uRejectionFromSR, 2), distance)

\* candle_size > uRejectionFromSR and distance < uRejectionFromSR / 2, the distance
\* being current_hline - high_price (upper) or low_price - current_hline (lower)
NearMiss(candle_size, distance, uRejectionFromSR) ==
    /\ RLt(uRejectionFromSR, candle_size)
    /\ RLt(distance, RDivInt(uRejectionFromSR, 2))

IsTouch_LowerDistanceAsUpper(r, current_hline, uRejectionFromSR, upper) ==
    LET open_price == FromInt(r.open)
        close_price == FromInt(r.close)
        high_price == FromInt(r.high)
        low_price == FromInt(r.low)
        candle_size == RAbs(RSub(high_price, low_price))
    IN  IF upper
        THEN /\ RLt(open_price, current_hline)
             /\ RLt(close_price, current_hline)
             /\ \/ Pierces(current_hline, high_price)
                \/ NearMiss(candle_size, RSub(current_hline, high_price), uRejectionFromSR)
        ELSE /\ RLt(current_hline, open_price)
             /\ RLt(current_hline, close_price)
             /\ \/ Pierces(low_price, current_hline)
                \/ NearMiss(candle_size, RSub(current_hline, low_price), uRejectionFromSR)

\* One iteration of the loop body: does the candle touch current_hline?
IsTouch(r, current_hline, uRejectionFromSR, upper) ==
    LET open_price == FromInt(r.open)
        close_price == FromInt(r.close)
        high_price == FromInt(r.high)
        low_price == FromInt(r.low)
        candle_size == RAbs(RSub(high_price, low_price))
    IN  IF upper
        THEN /\ RLt(open_price, current_hline)
             /\ RLt(close_price, current_hline)
             /\ \/ Pierces(current_hline, high_price)
                \/ NearMiss(candle_size, RSub(current_hline, high_price), uRejectionFromSR)
        ELSE /\ RLt(current_hline, open_price)
             /\ RLt(current_hline, close_price)
             /\ \/ Pierces(low_price, current_hline)
                \/ NearMiss(candle_size, RSub(low_price, current_hline), uRejectionFromSR)

\* for idx in range(len(recent_rates) - 1): the last row of the window is not visited
TouchRange(recent_rates) == 1 .. (Len(recent_rates) - 1)

count_touches(current_hline, recent_rates, uRejectionFromSR, upper) ==
    Cardinality({idx \in TouchRange(recent_rates) :
        IsTouch(recent_rates[idx], current_hline, uRejectionFromSR, upper)})

---------------------------------------------------------------------------
(* calculate_sr_levels *)

\* Series.max() and Series.min() of a column without NaN
SeqMax(s) == CHOOSE m \in {s[j] : j \in 1 .. Len(s)} : \A j \in 1 .. Len(s) : s[j] <= m
SeqMin(s) == CHOOSE m \in {s[j] : j \in 1 .. Len(s)} : \A j \in 1 .. Len(s) : m <= s[j]

\* recent_rates = df.iloc[window_start:window_end], window_end exclusive
Window(d, p, k) == SubSeq(d, k - p.period_for_sr + 1, k)

LocalMaxOf(recent_rates) == SeqMax([j \in 1 .. Len(recent_rates) |-> recent_rates[j].high])
LocalMinOf(recent_rates) == SeqMin([j \in 1 .. Len(recent_rates) |-> recent_rates[j].low])

uSlackForSR(atr, p) == RDivInt(atr, p.slack_for_sr_atr_div)
uRejectionFromSR(atr, p) == RMulInt(atr, p.atr_rejection_multiplier)

RECURSIVE UpperSearch_ReturnsNext(_, _, _, _, _, _)
UpperSearch_ReturnsNext(HighSR, LoopCounter, recent_rates, atr, LocalMax, p) ==
    IF ~(LoopCounter < p.max_height_of_sr_distance) THEN Zero
    ELSE IF count_touches(HighSR, recent_rates, uRejectionFromSR(atr, p), TRUE)
                >= p.touches_for_sr
         THEN RAdd(HighSR, uSlackForSR(atr, p))
         ELSE LET next == RAdd(HighSR, uSlackForSR(atr, p))
              IN  IF RLt(FromInt(LocalMax), next) THEN Zero
                  ELSE UpperSearch_ReturnsNext(next, LoopCounter + 1, recent_rates, atr,
                                               LocalMax, p)

\* The while loop of the upper level: count the touches of HighSR; accept it, or
\* step up by the slack and stop with 0 once HighSR is above LocalMax
RECURSIVE UpperSearch(_, _, _, _, _, _)
UpperSearch(HighSR, LoopCounter, recent_rates, atr, LocalMax, p) ==
    IF ~(LoopCounter < p.max_height_of_sr_distance) THEN Zero
    ELSE IF count_touches(HighSR, recent_rates, uRejectionFromSR(atr, p), TRUE)
                >= p.touches_for_sr
         THEN HighSR
         ELSE LET next == RAdd(HighSR, uSlackForSR(atr, p))
              IN  IF RLt(FromInt(LocalMax), next) THEN Zero
                  ELSE UpperSearch(next, LoopCounter + 1, recent_rates, atr, LocalMax, p)

RECURSIVE LowerSearch(_, _, _, _, _, _)
LowerSearch(LowSR, LoopCounter, recent_rates, atr, LocalMin, p) ==
    IF ~(LoopCounter < p.max_height_of_sr_distance) THEN Zero
    ELSE IF count_touches(LowSR, recent_rates, uRejectionFromSR(atr, p), FALSE)
                >= p.touches_for_sr
         THEN LowSR
         ELSE LET next == RSub(LowSR, uSlackForSR(atr, p))
              IN  IF RLt(next, FromInt(LocalMin)) THEN Zero
                  ELSE LowerSearch(next, LoopCounter + 1, recent_rates, atr, LocalMin, p)

HighSR0_AtOpen(current_open, atr, p) == FromInt(current_open)

\* HighSR = current_open + uSlackForSR * min_height_of_sr_distance
HighSR0(current_open, atr, p) ==
    RAdd(FromInt(current_open), RMulInt(uSlackForSR(atr, p), p.min_height_of_sr_distance))

\* LowSR = current_open - uSlackForSR * min_height_of_sr_distance
LowSR0_AboveOpen(current_open, atr, p) ==
    RAdd(FromInt(current_open), RMulInt(uSlackForSR(atr, p), p.min_height_of_sr_distance))

LowSR0(current_open, atr, p) ==
    RSub(FromInt(current_open), RMulInt(uSlackForSR(atr, p), p.min_height_of_sr_distance))

upper_sr_level_FromCurrentHigh(d, p, k) ==
    LET recent_rates == Window(d, p, k)
    IN  UpperSearch(HighSR0(d[k + 1].high, d[k + 1].ATR, p), 0, recent_rates,
                    d[k + 1].ATR, LocalMaxOf(recent_rates), p)

upper_sr_level(d, p, k) ==
    LET recent_rates == Window(d, p, k)
    IN  UpperSearch(HighSR0(d[k + 1].open, d[k + 1].ATR, p), 0, recent_rates,
                    d[k + 1].ATR, LocalMaxOf(recent_rates), p)

RECURSIVE UpperLoopCounter(_, _, _, _, _, _)
UpperLoopCounter(HighSR, LoopCounter, recent_rates, atr, LocalMax, p) ==
    IF ~(LoopCounter < p.max_height_of_sr_distance) THEN LoopCounter
    ELSE IF count_touches(HighSR, recent_rates, uRejectionFromSR(atr, p), TRUE)
                >= p.touches_for_sr
         THEN LoopCounter
         ELSE LET next == RAdd(HighSR, uSlackForSR(atr, p))
              IN  IF RLt(FromInt(LocalMax), next) THEN LoopCounter + 1
                  ELSE UpperLoopCounter(next, LoopCounter + 1, recent_rates, atr,
                                        LocalMax, p)

lower_sr_level_SharedBudget(d, p, k) ==
    LET recent_rates == Window(d, p, k)
    IN  LowerSearch(LowSR0(d[k + 1].open, d[k + 1].ATR, p),
                    UpperLoopCounter(HighSR0(d[k + 1].open, d[k + 1].ATR, p), 0,
                                     recent_rates, d[k + 1].ATR,
                                     LocalMaxOf(recent_rates), p),
                    recent_rates, d[k + 1].ATR, LocalMinOf(recent_rates), p)

\* LoopCounter = 0 again, then the while loop of the lower level
lower_sr_level(d, p, k) ==
    LET recent_rates == Window(d, p, k)
    IN  LowerSearch(LowSR0(d[k + 1].open, d[k + 1].ATR, p), 0, recent_rates,
                    d[k + 1].ATR, LocalMinOf(recent_rates), p)

SkipBar_NoZeroCheck(d, p, k) ==
    \/ k < p.period_for_sr
    \/ IsNaN(d[k + 1].ATR)

\* if i < period_for_sr: continue ... if pd.isna(atr) or atr == 0: continue
SkipBar(d, p, k) ==
    \/ k < p.period_for_sr
    \/ IsNaN(d[k + 1].ATR)
    \/ d[k + 1].ATR = Zero

\* A malformed (non-numeric) open makes the arithmetic on it raise TypeError: at
\* the bar itself (current_open + ...) and in count_touches for every window row
\* the loop visits.
BarRaises(d, p, k) ==
    \/ d[k + 1].bad
    \/ \E idx \in TouchRange(Window(d, p, k)) : Window(d, p, k)[idx].bad

\* df['upper_sr'] = 0.0 ... and the parameter extraction
\* calculate_sr_levels is called directly, or by stam.py after calculate_indicators
SRCalled ==
    \/ pc = "sr_call"
    \/ pc = "ci_returned" /\ script # "TradingPlatforms"

SRInitColumns_DropsIndicators ==
    /\ SRCalled
    /\ df' = [k \in 1 .. Len(df) |->
                [Row(df[k].time, df[k].open, df[k].high, df[k].low, df[k].close,
                     df[k].ATR, df[k].bad)
                    EXCEPT !.upper_sr = Zero, !.lower_sr = Zero,
                           !.prev_upper_sr_level = Zero,
                           !.prev_lower_sr_level = Zero]]
    /\ i' = 0
    /\ pc' = "sr_loop"
    /\ UNCHANGED <<cols, sr_params, err, file, env>>

SRInitColumns ==
    /\ SRCalled
    /\ df' = [k \in 1 .. Len(df) |->
                [df[k] EXCEPT !.upper_sr = Zero, !.lower_sr = Zero,
                              !.prev_upper_sr_level = Zero,
                              !.prev_lower_sr_level = Zero]]
    /\ i' = 0
    /\ pc' = "sr_loop"
    /\ UNCHANGED <<cols, sr_params, err, file, env>>

SRBarSkip ==
    /\ pc = "sr_loop"
    /\ i < Len(df)
    /\ SkipBar(df, sr_params, i)
    /\ i' = i + 1
    /\ UNCHANGED <<df, cols, sr_params, pc, err, file, env>>

SRBarCompute_TracksPrev ==
    /\ pc = "sr_loop"
    /\ i < Len(df)
    /\ ~SkipBar(df, sr_params, i)
    /\ ~BarRaises(df, sr_params, i)
    /\ df' = [df EXCEPT ![i + 1].upper_sr = upper_sr_level(df, sr_params, i),
                        ![i + 1].lower_sr = lower_sr_level(df, sr_params, i),
                        ![i + 1].prev_upper_sr_level = df[i].upper_sr,
                        ![i + 1].prev_lower_sr_level = df[i].lower_sr]
    /\ i' = i + 1
    /\ UNCHANGED <<cols, sr_params, pc, err, file, env>>

\* One pass of the loop body for a bar that is not skipped: only upper_sr and
\* lower_sr are stored
SRBarCompute ==
    /\ pc = "sr_loop"
    /\ i < Len(df)
    /\ ~SkipBar(df, sr_params, i)
    /\ ~BarRaises(df, sr_params, i)
    /\ df' = [df EXCEPT ![i + 1].upper_sr = upper_sr_level(df, sr_params, i),
                        ![i + 1].lower_sr = lower_sr_level(df, sr_params, i)]
    /\ i' = i + 1
    /\ UNCHANGED <<cols, sr_params, pc, err, file, env>>

SRBarRaise ==
    /\ pc = "sr_loop"
    /\ i < Len(df)
    /\ ~SkipBar(df, sr_params, i)
    /\ BarRaises(df, sr_params, i)
    /\ err' = "TypeError"
    /\ pc' = "sr_raised"
    /\ UNCHANGED <<df, cols, sr_params, i, file, env>>

SRReturn ==
    /\ pc = "sr_loop"
    /\ i = Len(df)
    /\ pc' = "sr_returned"
    /\ UNCHANGED <<df, cols, sr_params, i, err, file, env>>

---------------------------------------------------------------------------
(* load_history *)

\* Times are counted in bar periods: datetime(2000, 1, 1) is 1, now is MaxTime
MaxTime == 4
MaxRuns == 2

\* The bars the server delivers: a candle with an upper wick, one with a lower
\* wick, and a bar that has just opened
FeedBars ==
    {[open |-> 0, high |-> 1, low |-> 0, close |-> 0],
     [open |-> 1, high |-> 1, low |-> 0, close |-> 1],
     Doji(0)}

\* df_existing = pd.read_parquet(filepath) when the file exists
LHLoadExisting ==
    /\ pc = "lh_start"
    /\ df_existing' = file
    /\ pc' = "lh_fetch"
    /\ UNCHANGED <<df, df_in, cols, sr_params, i, err, file, run, script, atr_warmup,
                   query, touches, server>>

earliest_time(d) == CHOOSE t \in {d[k].time : k \in 1 .. Len(d)} :
                        \A k \in 1 .. Len(d) : t <= d[k].time

latest_time(d) == CHOOSE t \in {d[k].time : k \in 1 .. Len(d)} :
                      \A k \in 1 .. Len(d) : t >= d[k].time

\* Fetch data before earliest_time: from 2000-01-01 to one second before it (to now
\* without existing data)
RangeBefore(d) == IF d = <<>> THEN 1 .. MaxTime ELSE 1 .. earliest_time(d) - 1

\* Fetch data after latest_time: from one second after it to now (from 2000-01-01
\* without existing data)
RangeAfter(d) == IF d = <<>> THEN 1 .. MaxTime ELSE latest_time(d) + 1 .. MaxTime

\* The bars of the times S in time order; rates maps the times the server holds to
\* their bars
RECURSIVE RatesOf(_, _)
RatesOf(rates, S) ==
    IF S = {} THEN <<>>
    ELSE LET t == CHOOSE t \in S : \A u \in S : t <= u
         IN  <<Bar(t, rates[t])>> \o RatesOf(rates, S \ {t})

\* mt5.copy_rates_range: the bars the server holds in the range, in time order
copy_rates_range(rates, range) == RatesOf(rates, (DOMAIN rates) \cap range)

\* df_combined.drop_duplicates(subset=['time']): the first row of each time stays
RECURSIVE drop_duplicates(_)
drop_duplicates(d) ==
    IF d = <<>> THEN <<>>
    ELSE LET front == drop_duplicates(SubSeq(d, 1, Len(d) - 1))
             last == d[Len(d)]
         IN  IF \E j \in 1 .. Len(front) : front[j].time = last.time
             THEN front ELSE Append(front, last)

\* The two fetches and "Combine all data": concat of df_before, df_after and
\* df_existing, drop_duplicates, sort_values, reset_index
LHFetchCombine ==
    /\ pc = "lh_fetch"
    /\ \E T \in SUBSET (RangeBefore(df_existing) \cup RangeAfter(df_existing)) :
          \E rates \in [T -> FeedBars] :
             LET df_before == copy_rates_range(rates, RangeBefore(df_existing))
                 df_after == copy_rates_range(rates, RangeAfter(df_existing))
                 data_frames == df_before \o df_after \o df_existing
             IN  /\ data_frames # <<>>
                 /\ df' = SortByTime(drop_duplicates(data_frames))
    /\ pc' = "lh_astype"
    /\ UNCHANGED <<cols, sr_params, i, err, file, env>>

\* No existing data and nothing fetched: "No data available"
LHNoData ==
    /\ pc = "lh_fetch"
    /\ df_existing = <<>>
    /\ pc' = "nodata"
    /\ UNCHANGED <<df, cols, sr_params, i, err, file, env>>

\* The script is started again later, for the same symbol and timeframe
LHNextRun ==
    /\ pc \in {"saved", "skipped", "nodata"}
    /\ run < MaxRuns
    /\ run' = run + 1
    /\ df' = <<>>
    /\ df_in' = <<>>
    /\ df_existing' = <<>>
    /\ i' = 0
    /\ err' = "none"
    /\ pc' = "lh_start"
    /\ UNCHANGED <<cols, sr_params, file, script, atr_warmup, query, touches, server>>

\* df_combined[col].astype(...), outside any try: a missing column is a KeyError
\* that ends load_history
LHAsTypeRaise ==
    /\ pc = "lh_astype"
    /\ ~(PriceColumns \subseteq cols)
    /\ err' = "KeyError"
    /\ pc' = "crashed"
    /\ UNCHANGED <<df, cols, sr_params, i, file, env>>

LHAsType ==
    /\ pc = "lh_astype"
    /\ PriceColumns \subseteq cols
    /\ df_in' = df
    /\ pc' = "ci_call"
    /\ UNCHANGED <<df, cols, sr_params, i, err, file, df_existing, run, script,
                   atr_warmup, query, touches, server>>

\* except Exception as e: print(...); continue  -- nothing is saved
LHIndicatorsError ==
    /\ pc = "ci_raised"
    /\ script # "direct"
    /\ pc' = "skipped"
    /\ UNCHANGED <<df, cols, sr_params, i, err, file, env>>

\* TradingPlatforms/load_history.py: to_csv right after calculate_indicators
LHSaveCsv ==
    /\ pc = "ci_returned"
    /\ script = "TradingPlatforms"
    /\ file' = df
    /\ pc' = "saved"
    /\ UNCHANGED <<df, cols, sr_params, i, err, env>>

\* except Exception as e: print(...); continue  -- the series is not saved
LHSRError ==
    /\ pc = "sr_raised"
    /\ pc' = "skipped"
    /\ UNCHANGED <<df, cols, sr_params, i, err, file, env>>

\* fillna(0) of the two SR columns, then to_parquet
FillNa(a) == IF IsNaN(a) THEN Zero ELSE a

LHSaveParquet ==
    /\ pc = "sr_returned"
    /\ script = "stam"
    /\ file' = [k \in 1 .. Len(df) |->
                  [df[k] EXCEPT !.upper_sr = FillNa(@), !.lower_sr = FillNa(@)]]
    /\ pc' = "saved"
    /\ UNCHANGED <<df, cols, sr_params, i, err, env>>

---------------------------------------------------------------------------
(* calculate_sr_levels on an arbitrary frame with a given ATR column: the   *)
(* window is two bars, the third bar has just opened.                       *)

MaxPrice == 2
MaxAtr == 1

AtrValues == {NaN} \cup {FromInt(a) : a \in 0 .. MaxAtr}

SmallParams ==
    [period_for_sr |-> 2,
     touches_for_sr |-> 1,
     slack_for_sr_atr_div |-> 2,
     atr_rejection_multiplier |-> 1,
     min_height_of_sr_distance |-> 1,
     max_height_of_sr_distance |-> 2]

\* What no action of a specification writes
Idle ==
    /\ df_in = <<>>
    /\ df_existing = <<>>
    /\ run = 1
    /\ atr_warmup = Zero
    /\ server = NoServer
    /\ query = <<>>
    /\ touches = <<>>
    /\ i = 0
    /\ err = "none"
    /\ file = <<>>
    /\ cols = PriceColumns

InitSR ==
    /\ \E w \in [1 .. 2 -> BarShapes(MaxPrice)], x \in 0 .. MaxPrice,
          warmup \in AtrValues, atr \in AtrValues :
          df = [k \in 1 .. 3 |->
                  [Bar(k, IF k = 3 THEN Doji(x) ELSE w[k])
                      EXCEPT !.ATR = IF k = 3 THEN atr ELSE warmup]]
    /\ sr_params = SmallParams
    /\ script = "stam"
    /\ pc = "sr_call"
    /\ Idle

NextSR ==
    \/ SRInitColumns
    \/ SRBarSkip
    \/ SRBarCompute
    \/ SRReturn
    \/ LHSaveParquet

SpecSR == InitSR /\ [][NextSR]_vars

---------------------------------------------------------------------------
(* calculate_sr_levels on a frame in which the open of one row is malformed *)

FaultLen == 4

InitFault ==
    /\ \E w \in [1 .. FaultLen -> FeedBars], badrow \in 0 .. FaultLen :
          df = [k \in 1 .. FaultLen |->
                  [Bar(k, w[k]) EXCEPT !.ATR = FromInt(1), !.bad = (k = badrow)]]
    /\ sr_params = SmallParams
    /\ script = "stam"
    /\ pc = "sr_call"
    /\ Idle

NextFault ==
    \/ SRInitColumns
    \/ SRBarSkip
    \/ SRBarCompute
    \/ SRBarRaise
    \/ SRReturn
    \/ LHSRError
    \/ LHSaveParquet

SpecFault == InitFault /\ [][NextFault]_vars

---------------------------------------------------------------------------
(* The scripts from the combined frame on, and direct calls of               *)
(* calculate_indicators followed by calculate_sr_levels, for a frame with    *)
(* any row order (load_history sorts before it calls) and any price columns  *)

FrameLen == 3

TimeOrders(n) == {f \in [1 .. n -> 1 .. n] : \A a, b \in 1 .. n : f[a] = f[b] => a = b}

ColumnSets == {PriceColumns} \cup {PriceColumns \ {c} : c \in PriceColumns}

InitFrame ==
    /\ script \in {"stam", "TradingPlatforms", "direct"}
    /\ \E w \in [1 .. FrameLen -> FeedBars], t \in TimeOrders(FrameLen) :
          /\ script # "direct" => \A k \in 1 .. FrameLen : t[k] = k
          /\ df = [k \in 1 .. FrameLen |-> Bar(t[k], w[k])]
    /\ df_in = df
    /\ cols \in ColumnSets
    /\ atr_warmup \in {Zero, NaN}
    /\ server = NoServer
    /\ sr_params = SmallParams
    /\ pc = IF script = "stam" THEN "lh_astype" ELSE "ci_call"
    /\ df_existing = <<>>
    /\ run = 1
    /\ query = <<>>
    /\ touches = <<>>
    /\ i = 0
    /\ err = "none"
    /\ file = <<>>

NextFrame ==
    \/ LHAsType
    \/ LHAsTypeRaise
    \/ calculate_indicators_raise
    \/ calculate_indicators_return
    \/ LHIndicatorsError
    \/ SRInitColumns
    \/ SRBarSkip
    \/ SRBarCompute
    \/ SRReturn
    \/ LHSaveParquet
    \/ LHSaveCsv

SpecFrame == InitFrame /\ [][NextFrame]_vars

---------------------------------------------------------------------------
(* A flat series under the stock SR_PARAMS: every bar is the same candle,    *)
(* low = FlatLow, high = FlatLow + eps, open = close = FlatLow + off, so that *)
(* every true range, and with it the ATR, is eps                             *)

FlatLen == 150
FlatLow == 100
MaxEps == 10

FlatBar(eps, off) ==
    [open |-> FlatLow + off, high |-> FlatLow + eps, low |-> FlatLow, close |-> FlatLow + off]

InitFlat ==
    /\ \E eps \in 1 .. MaxEps : \E off \in 0 .. eps :
          df = [k \in 1 .. FlatLen |-> [Bar(k, FlatBar(eps, off)) EXCEPT !.ATR = FromInt(eps)]]
    /\ sr_params = SR_PARAMS
    /\ script = "direct"
    /\ pc = "sr_call"
    /\ Idle

NextFlat ==
    \/ SRInitColumns
    \/ SRBarSkip
    \/ SRBarCompute
    \/ SRReturn

SpecFlat == InitFlat /\ [][NextFlat]_vars

---------------------------------------------------------------------------
(* A horizontal ceiling under the stock SR_PARAMS: a window of 100 bars that *)
(* open and close below Ceiling, some of them rejecting at it (high =        *)
(* Ceiling), the others oscillating well below; then the bar to compute,     *)
(* which has just opened.                                                    *)

Ceiling == 200
MaxRejecting == 4

\* A bar that opens and closes `below` under the ceiling, reaches it, and whose
\* low is `tail` under its open
RejectingBar(below, tail) ==
    [open |-> Ceiling - below, high |-> Ceiling,
     low |-> Ceiling - below - tail, close |-> Ceiling - below]

FillerBar == [open |-> Ceiling - 40, high |-> Ceiling - 33, low |-> Ceiling - 42, close |-> Ceiling - 35]

\* Where the n rejecting bars stand in the window
RejectingRows(where, n) ==
    CASE where = "first" -> 1 .. n
      [] where = "last" -> (period_for_sr - n + 1) .. period_for_sr
      [] where = "spread" -> {25 * k - 10 : k \in 1 .. n}

InitCeiling ==
    /\ \E below \in {1, 6, 30}, tail \in {0, 11}, n \in touches_for_sr .. MaxRejecting,
          where \in {"first", "last", "spread"}, atr \in {10, 20},
          o \in {Ceiling - 45, Ceiling - 20, Ceiling - 4, Ceiling - 1, Ceiling + 1, Ceiling + 3} :
          df = [k \in 1 .. period_for_sr + 1 |->
                  [Bar(k, IF k = period_for_sr + 1 THEN Doji(o)
                          ELSE IF k \in RejectingRows(where, n)
                               THEN RejectingBar(below, tail)
                               ELSE FillerBar)
                   EXCEPT !.ATR = FromInt(atr)]]
    /\ sr_params = SR_PARAMS
    /\ script = "direct"
    /\ pc = "sr_call"
    /\ Idle

NextCeiling ==
    \/ SRInitColumns
    \/ SRBarSkip
    \/ SRBarCompute
    \/ SRReturn

SpecCeiling == InitCeiling /\ [][NextCeiling]_vars

---------------------------------------------------------------------------
(* calculate_sr_levels on a window of three bars with short wicks, under     *)
(* parameters that give each search three candidate levels; then the bar to  *)
(* compute, which has just opened anywhere in the price range.               *)

RangePrice == 4

\* Bars that close where they opened, with wicks of at most one point
WickBars(maxp) ==
    {b \in BarShapes(maxp) :
        /\ b.open = b.close
        /\ b.high - b.open <= 1
        /\ b.open - b.low <= 1}

RangeAtr == {Rat(1, 2), FromInt(1)}

RangeParams ==
    [period_for_sr |-> 3, touches_for_sr |-> 1, slack_for_sr_atr_div |-> 2,
     atr_rejection_multiplier |-> 1, min_height_of_sr_distance |-> 1,
     max_height_of_sr_distance |-> 3]

InitRange ==
    /\ \E w \in [1 .. 3 -> WickBars(RangePrice)], o \in 0 .. RangePrice, atr \in RangeAtr :
          df = [k \in 1 .. 4 |->
                  [Bar(k, IF k = 4 THEN Doji(o) ELSE w[k]) EXCEPT !.ATR = atr]]
    /\ sr_params = RangeParams
    /\ script = "direct"
    /\ pc = "sr_call"
    /\ Idle

NextRange ==
    \/ SRInitColumns
    \/ SRBarSkip
    \/ SRBarCompute
    \/ SRReturn

SpecRange == InitRange /\ [][NextRange]_vars

---------------------------------------------------------------------------
(* stam.py run repeatedly over one parquet file: load, fetch, combine,       *)
(* calculate_indicators, calculate_sr_levels, save                           *)

Init ==
    /\ df = <<>>
    /\ df_in = <<>>
    /\ df_existing = <<>>
    /\ file = <<>>
    /\ cols = PriceColumns
    /\ sr_params = SmallParams
    /\ script = "stam"
    /\ pc = "lh_start"
    /\ run = 1
    /\ i = 0
    /\ err = "none"
    /\ atr_warmup \in {Zero, NaN}
    /\ server = NoServer
    /\ query = <<>>
    /\ touches = <<>>

Next ==
    \/ LHLoadExisting
    \/ LHFetchCombine
    \/ LHNoData
    \/ LHAsType
    \/ calculate_indicators_short
    \/ calculate_indicators_return
    \/ LHIndicatorsError
    \/ SRInitColumns
    \/ SRBarSkip
    \/ SRBarCompute
    \/ SRReturn
    \/ LHSaveParquet
    \/ LHNextRun

Spec == Init /\ [][Next]_vars

---------------------------------------------------------------------------
(* Constructions and shutdowns of MT5Server *)

InitServer ==
    /\ server = NoServer
    /\ pc = "serving"
    /\ script = "TradingPlatforms"
    /\ df = <<>>
    /\ df_in = <<>>
    /\ df_existing = <<>>
    /\ file = <<>>
    /\ cols = PriceColumns
    /\ sr_params = SR_PARAMS
    /\ run = 1
    /\ i = 0
    /\ err = "none"
    /\ atr_warmup = Zero
    /\ query = <<>>
    /\ touches = <<>>

NextServer == MT5Server_construct \/ shutdown_mt5

SpecServer == InitServer /\ [][NextServer]_vars

---------------------------------------------------------------------------
(* count_touches called for one level and window under two rejection         *)
(* multipliers: the rejection is atr * atr_rejection_multiplier, as          *)
(* calculate_sr_levels computes it                                           *)

MaxTouchPrice == 3
MaxMultiplier == 3

\* Candidate levels: the half points of the price range
TouchLevels == {Rat(n, 2) : n \in 0 .. 2 * MaxTouchPrice + 2}

WithMultiplier(p, m) == [p EXCEPT !.atr_rejection_multiplier = m]

InitTouch ==
    /\ \E w \in [1 .. 2 -> BarShapes(MaxTouchPrice)] :
          df = [k \in 1 .. 3 |-> Bar(k, IF k = 3 THEN Doji(0) ELSE w[k])]
    /\ \E level \in TouchLevels, lo \in 1 .. MaxMultiplier, hi \in 1 .. MaxMultiplier,
          upper \in BOOLEAN :
          /\ lo < hi
          /\ query = [current_hline |-> level, atr |-> FromInt(1),
                      multipliers |-> <<lo, hi>>, upper |-> upper]
    /\ sr_params = SmallParams
    /\ script = "direct"
    /\ pc = "ct_call"
    /\ touches = <<>>
    /\ df_in = <<>>
    /\ df_existing = <<>>
    /\ run = 1
    /\ atr_warmup = Zero
    /\ server = NoServer
    /\ i = 0
    /\ err = "none"
    /\ file = <<>>
    /\ cols = PriceColumns

\* uRejectionFromSR = atr * atr_rejection_multiplier; count_touches(level, window,
\* uRejectionFromSR, upper), once for each of the two multipliers
CountTouchesCalls ==
    /\ pc = "ct_call"
    /\ touches' = [m \in 1 .. 2 |->
                     count_touches(query.current_hline, df,
                                   uRejectionFromSR(query.atr,
                                       WithMultiplier(sr_params, query.multipliers[m])),
                                   query.upper)]
    /\ pc' = "ct_returned"
    /\ UNCHANGED <<df, df_in, cols, sr_params, i, err, file, df_existing, run, script,
                   atr_warmup, query, server>>

NextTouch == CountTouchesCalls

SpecTouch == InitTouch /\ [][NextTouch]_vars

---------------------------------------------------------------------------
(* Claims *)

\* calculate_sr_levels has set up its columns (it is in its loop, or has returned)
SRColumnsSet == pc \in {"sr_loop", "sr_returned", "saved"}

\* C2: a bar with index below the lookback period, or whose ATR is NaN or exactly
\* zero, has upper_sr = 0 and lower_sr = 0, whatever the prices of the series.
C2_SkippedBarsAreZero ==
    SRColumnsSet =>
        \A k \in 1 .. Len(df) :
            (\/ k - 1 < sr_params.period_for_sr
             \/ IsNaN(df[k].ATR)
             \/ df[k].ATR = Zero)
            => df[k].upper_sr = Zero /\ df[k].lower_sr = Zero

\* The series was returned with a bar past the lookback period that was skipped for
\* its zero ATR, although its window holds a candle that pierces the bar's open.
C2_Witness ==
    /\ pc = "sr_returned"
    /\ \E k \in 1 .. Len(df) :
          /\ k - 1 >= sr_params.period_for_sr
          /\ df[k].ATR = Zero
          /\ df[k].upper_sr = Zero
          /\ \E j \in 1 .. k - 2 :
                /\ df[j].open < df[k].open /\ df[j].close < df[k].open
                /\ df[j].high > df[k].open
    /\ \E k \in 1 .. Len(df) : ~IsNaN(df[k].ATR) /\ df[k].ATR # Zero

\* The input columns of a row
RowKey(r) == <<r.time, r.open, r.high, r.low, r.close>>

\* C1: from the return of calculate_indicators to the return of calculate_sr_levels
\* the frame has exactly the rows of the input frame (as many rows, none dropped,
\* none duplicated) and they are in ascending time order.
C1_SameRowsInTimeOrder ==
    pc \in {"ci_returned", "sr_loop", "sr_returned"} =>
        /\ Len(df) = Len(df_in)
        /\ \A k \in 1 .. Len(df) - 1 : df[k].time < df[k + 1].time
        /\ {RowKey(df[k]) : k \in 1 .. Len(df)} = {RowKey(df_in[k]) : k \in 1 .. Len(df_in)}

\* calculate_sr_levels returned for an input frame that was not in time order, with
\* a level found on the last bar.
C1_Witness ==
    /\ pc = "sr_returned"
    /\ script = "direct"
    /\ df_in[1].time > df_in[2].time
    /\ df[Len(df)].upper_sr # Zero

\* The bars calculate_sr_levels does not skip
Computed(k) ==
    /\ k - 1 >= sr_params.period_for_sr
    /\ ~IsNaN(df[k].ATR)
    /\ df[k].ATR # Zero

\* C3: a bar whose open is above localMax, the highest high of its lookback
\* window, gets upper_sr = 0.
C3_OpenAboveLocalMaxGivesZero ==
    pc = "sr_returned" =>
        \A k \in 1 .. Len(df) :
            (/\ Computed(k)
             /\ \A j \in k - sr_params.period_for_sr .. k - 1 : df[j].high < df[k].open)
            => df[k].upper_sr = Zero

\* C4 as claimed: on the flat series every bar has upper_sr = 0 and lower_sr = 0.
C4_FlatSeriesAllZero ==
    pc = "sr_returned" =>
        \A k \in 1 .. Len(df) : df[k].upper_sr = Zero /\ df[k].lower_sr = Zero

\* C4 as amended: on the flat series with eps > 0 (ATR = eps = high - low) the bars
\* below the lookback period have upper_sr = lower_sr = 0; a later bar has upper_sr
\* equal to the first candidate level open + 3 eps / 10 whenever that level is below
\* high, and lower_sr equal to open - 3 eps / 10 whenever that level is above low
\* (every window bar pierces such a level), so at least one of its levels is not 0.
C4_FlatSeriesLevels ==
    pc = "sr_returned" =>
        \A k \in 1 .. Len(df) :
            LET eps == df[k].high - df[k].low
                up == Rat(slack_for_sr_atr_div * df[k].open + min_height_of_sr_distance * eps,
                          slack_for_sr_atr_div)
                lo == Rat(slack_for_sr_atr_div * df[k].open - min_height_of_sr_distance * eps,
                          slack_for_sr_atr_div)
            IN  IF k - 1 < period_for_sr
                THEN df[k].upper_sr = Zero /\ df[k].lower_sr = Zero
                ELSE /\ RLt(up, FromInt(df[k].high)) => df[k].upper_sr = up
                     /\ RLt(FromInt(df[k].low), lo) => df[k].lower_sr = lo
                     /\ df[k].upper_sr # Zero \/ df[k].lower_sr # Zero

\* The flat series was returned with open = close = low: the last bar has a level
\* above it and none below.
C4_Witness ==
    /\ pc = "sr_returned"
    /\ Len(df) = FlatLen
    /\ df[FlatLen].open = df[FlatLen].low
    /\ df[FlatLen].upper_sr # Zero
    /\ df[FlatLen].lower_sr = Zero

\* The bar computed under the ceiling
CeilingBar == df[period_for_sr + 1]

\* C5 as claimed: under the ceiling the upper search returns a level within one
\* slack step of the ceiling price.
C5_UpperWithinSlackOfCeiling ==
    (pc = "sr_returned" /\ CeilingBar.open < Ceiling) =>
        RLe(RAbs(RSub(CeilingBar.upper_sr, FromInt(Ceiling))),
            uSlackForSR(CeilingBar.ATR, SR_PARAMS))

\* C5 as amended: under the ceiling the upper search returns 0 or a candidate level
\* open + (3 + k) slack, 0 <= k < 30, that lies less than half the rejection above
\* the ceiling price; it need not be within a slack step of the ceiling.
C5_UpperBelowCeilingBand ==
    pc = "sr_returned" =>
        \/ CeilingBar.upper_sr = Zero
        \/ /\ \E k \in 0 .. max_height_of_sr_distance - 1 :
                 CeilingBar.upper_sr =
                     RAdd(FromInt(CeilingBar.open),
                          RMulInt(RDivInt(CeilingBar.ATR, slack_for_sr_atr_div),
                                  min_height_of_sr_distance + k))
           /\ RLt(CeilingBar.upper_sr,
                  RAdd(FromInt(Ceiling),
                       RDivInt(RMulInt(CeilingBar.ATR, atr_rejection_multiplier), 2)))

\* The search under the ceiling returned a level between the open and the ceiling,
\* more than a slack step below the ceiling.
C5_Witness ==
    /\ pc = "sr_returned"
    /\ CeilingBar.upper_sr # Zero
    /\ RLt(FromInt(CeilingBar.open), CeilingBar.upper_sr)
    /\ RLt(RAdd(CeilingBar.upper_sr, uSlackForSR(CeilingBar.ATR, SR_PARAMS)), FromInt(Ceiling))

\* The rejection value of the query under its m-th multiplier
QueryRejection(m) == RMulInt(query.atr, query.multipliers[m])

\* How far the bar stays from the level of the query, on the side the mode looks at
QueryDistance(r) ==
    IF query.upper THEN RSub(query.current_hline, FromInt(r.high))
    ELSE RSub(FromInt(r.low), query.current_hline)

\* C6 as claimed: with the level, the window and the ATR fixed, the touch count under
\* the larger rejection multiplier is never above the count under the smaller one.
C6_LargerMultiplierNeverMoreTouches ==
    pc = "ct_returned" => touches[2] <= touches[1]

\* C6 as amended: the count under the larger multiplier is never above the count
\* under the smaller one when every bar the count examines is already nearer to the level than
\* half the smaller rejection (then only the candle-size test tightens).
C6_NeverMoreTouchesWhenNear ==
    (/\ pc = "ct_returned"
     /\ \A k \in TouchRange(df) : RLt(QueryDistance(df[k]), RDivInt(QueryRejection(1), 2)))
    => touches[2] <= touches[1]

\* Every examined bar is nearer than half the smaller rejection and the larger
\* multiplier lost a touch.
C6_Witness ==
    /\ pc = "ct_returned"
    /\ \A k \in TouchRange(df) : RLt(QueryDistance(df[k]), RDivInt(QueryRejection(1), 2))
    /\ touches[2] < touches[1]

\* C7 as claimed: with the level, the window and the ATR fixed, the touch count under
\* the larger rejection multiplier is never below the count under the smaller one.
C7_LargerMultiplierNeverFewerTouches ==
    pc = "ct_returned" => touches[2] >= touches[1]

\* C7 as amended: the count under the larger multiplier is never below the count
\* under the smaller one when the range of every bar the count examines exceeds the larger
\* rejection (then only the distance test widens).
C7_NeverFewerTouchesWhenLargeCandles ==
    (/\ pc = "ct_returned"
     /\ \A k \in TouchRange(df) : RLt(QueryRejection(2), FromInt(df[k].high - df[k].low)))
    => touches[2] >= touches[1]

\* Every examined bar has a range above the larger rejection and the larger
\* multiplier gained a touch.
C7_Witness ==
    /\ pc = "ct_returned"
    /\ \A k \in TouchRange(df) : RLt(QueryRejection(2), FromInt(df[k].high - df[k].low))
    /\ touches[2] > touches[1]

\* The values the pipeline computes for a row
Computations(r) == <<r.time, r.ATR, r.upper_sr, r.lower_sr>>

\* Every row of the file loaded at the start of the run is in the saved file with
\* the same ATR and SR values
OldRowsUnchanged ==
    \A k \in 1 .. Len(df_existing) :
        \E j \in 1 .. Len(file) : Computations(file[j]) = Computations(df_existing[k])

\* Every bar merged in this run is newer than the latest existing bar
OnlyAppended ==
    \A j \in 1 .. Len(file) :
        \/ \E k \in 1 .. Len(df_existing) : df_existing[k].time = file[j].time
        \/ file[j].time > latest_time(df_existing)

\* C10 as claimed: after a run has merged fetched bars, newer than the latest existing
\* bar or older than the earliest one, and saved, every row of the file it started
\* from has its ATR and SR values unchanged.
C10_OldRowsUnchangedByAnyMerge ==
    (pc = "saved" /\ df_existing # <<>>) => OldRowsUnchanged

\* C10 as amended: after a run has merged only bars newer than the latest existing
\* bar and saved, every row of the file it started from has its ATR and SR values
\* unchanged.
C10_OldRowsUnchangedByAppend ==
    (pc = "saved" /\ df_existing # <<>> /\ OnlyAppended) => OldRowsUnchanged

\* A second run appended bars to a file holding a level and saved.
C10_Witness ==
    /\ pc = "saved"
    /\ run = 2
    /\ df_existing # <<>>
    /\ OnlyAppended
    /\ Len(file) > Len(df_existing)
    /\ \E k \in 1 .. Len(df_existing) : df_existing[k].upper_sr # Zero
    /\ file[Len(file)].lower_sr # Zero

\* C12: for each compared moving average and every bar the comparison is 'above'
\* exactly when close > MA, 'below' exactly when close < MA, 'equal' exactly when
\* close = MA, and a bar whose MA is undefined has none of the three categories.
C12_ComparisonFollowsMA ==
    pc \in {"ci_returned", "sr_loop", "sr_returned", "saved"} =>
        \A k \in 1 .. Len(df) : \A l \in MaLabels :
            LET ma == df[k].MA[l]
                close == FromInt(df[k].close)
                comp == df[k].MA_comp[l]
            IN  IF IsNaN(ma)
                THEN comp \notin {"above", "below", "equal"}
                ELSE /\ comp = "above" <=> RLt(ma, close)
                     /\ comp = "below" <=> RLt(close, ma)
                     /\ comp = "equal" <=> ma = close

\* C13: from the initialisation of the SR columns on, prev_upper_sr_level and
\* prev_lower_sr_level are 0 on every bar, in the frame and in the saved file,
\* whatever levels were accepted on earlier bars.
C13_PrevLevelsStayZero ==
    /\ SRColumnsSet =>
          \A k \in 1 .. Len(df) :
              df[k].prev_upper_sr_level = Zero /\ df[k].prev_lower_sr_level = Zero
    /\ \A k \in 1 .. Len(file) :
          file[k].prev_upper_sr_level = Zero /\ file[k].prev_lower_sr_level = Zero

\* calculate_sr_levels returned a frame in which a bar with an accepted level of
\* its own follows a bar with an accepted upper level.
C13_Witness ==
    /\ pc = "sr_returned"
    /\ \E k \in 1 .. Len(df) - 1 :
          /\ df[k].upper_sr # Zero
          /\ df[k + 1].upper_sr # Zero \/ df[k + 1].lower_sr # Zero
          /\ df[k + 1].prev_upper_sr_level = Zero
          /\ df[k + 1].prev_lower_sr_level = Zero

WholeWindowTouches(current_hline, recent_rates, rejection, upper) ==
    Cardinality({idx \in 1 .. Len(recent_rates) :
                    IsTouch(recent_rates[idx], current_hline, rejection, upper)})

\* C15: for a bar that is not skipped the count that accepts or rejects a candidate
\* level is the number of touching bars of the whole window [i - lookback, i), bar
\* i - 1 included: the first candidate of each search is accepted exactly when that
\* many bars of the whole window touch it.
C15_WholeWindowIsCounted ==
    pc = "sr_returned" =>
        \A k \in 1 .. Len(df) :
            Computed(k) =>
                LET recent_rates == Window(df, sr_params, k - 1)
                    rejection == uRejectionFromSR(df[k].ATR, sr_params)
                    HighSR == HighSR0(df[k].open, df[k].ATR, sr_params)
                    LowSR == LowSR0(df[k].open, df[k].ATR, sr_params)
                IN  /\ df[k].upper_sr = HighSR
                        <=> WholeWindowTouches(HighSR, recent_rates, rejection, TRUE)
                                >= sr_params.touches_for_sr
                    /\ df[k].lower_sr = LowSR
                        <=> WholeWindowTouches(LowSR, recent_rates, rejection, FALSE)
                                >= sr_params.touches_for_sr

\* The candidate levels of the two searches of bar k (1-based), n steps from the first
UpperCandidate(k, n) ==
    RAdd(HighSR0(df[k].open, df[k].ATR, sr_params),
         RMulInt(uSlackForSR(df[k].ATR, sr_params), n))

LowerCandidate(k, n) ==
    RSub(LowSR0(df[k].open, df[k].ATR, sr_params),
         RMulInt(uSlackForSR(df[k].ATR, sr_params), n))

\* The touches count_touches reports for a level in the window of bar k
TouchesAt(k, level, upper) ==
    count_touches(level, Window(df, sr_params, k - 1),
                  uRejectionFromSR(df[k].ATR, sr_params), upper)

\* The level is the n-th candidate, it has enough touches and no nearer candidate has
FirstQualifying(k, level, n, upper) ==
    /\ level = IF upper THEN UpperCandidate(k, n) ELSE LowerCandidate(k, n)
    /\ TouchesAt(k, level, upper) >= sr_params.touches_for_sr
    /\ \A m \in 0 .. n - 1 :
          TouchesAt(k, IF upper THEN UpperCandidate(k, m) ELSE LowerCandidate(k, m), upper)
              < sr_params.touches_for_sr

\* C16: for a bar that is not skipped a non-zero upper_sr is the candidate
\* open + (min_slack_steps + n) * slack with the smallest n >= 0 whose touch count
\* reaches min_touches, and a non-zero lower_sr is the mirrored candidate
\* open - (min_slack_steps + n) * slack.
C16_AcceptedLevelIsFirstQualifying ==
    pc = "sr_returned" =>
        \A k \in 1 .. Len(df) :
            Computed(k) =>
                /\ df[k].upper_sr # Zero =>
                      \E n \in 0 .. sr_params.max_height_of_sr_distance - 1 :
                          FirstQualifying(k, df[k].upper_sr, n, TRUE)
                /\ df[k].lower_sr # Zero =>
                      \E n \in 0 .. sr_params.max_height_of_sr_distance - 1 :
                          FirstQualifying(k, df[k].lower_sr, n, FALSE)

\* A bar got an upper level and a lower level, neither the first candidate of its
\* search.
C16_Witness ==
    /\ pc = "sr_returned"
    /\ \E k \in 1 .. Len(df) :
          /\ Computed(k)
          /\ df[k].upper_sr # Zero
          /\ df[k].lower_sr # Zero
          /\ \E n \in 1 .. sr_params.max_height_of_sr_distance - 1 :
                FirstQualifying(k, df[k].upper_sr, n, TRUE)
          /\ \E n \in 1 .. sr_params.max_height_of_sr_distance - 1 :
                FirstQualifying(k, df[k].lower_sr, n, FALSE)

\* C17: no level beyond the extreme of the window is accepted: for every bar a
\* non-zero upper_sr is at most localMax, the highest high of the window, and a
\* non-zero lower_sr is at least localMin, the lowest low.
C17_LevelsWithinWindowExtremes ==
    pc = "sr_returned" =>
        \A k \in 1 .. Len(df) :
            Computed(k) =>
                LET recent_rates == Window(df, sr_params, k - 1)
                IN  /\ df[k].upper_sr # Zero =>
                          RLe(df[k].upper_sr, FromInt(LocalMaxOf(recent_rates)))
                    /\ df[k].lower_sr # Zero =>
                          RLe(FromInt(LocalMinOf(recent_rates)), df[k].lower_sr)

\* The search of bar k reaches its n-th candidate: the step to each candidate up to
\* it stayed within the extreme of the window
Reaches(k, n, upper) ==
    LET recent_rates == Window(df, sr_params, k - 1)
    IN  \A m \in 1 .. n :
            IF upper THEN RLe(UpperCandidate(k, m), FromInt(LocalMaxOf(recent_rates)))
            ELSE RLe(FromInt(LocalMinOf(recent_rates)), LowerCandidate(k, m))

\* What a search of bar k with a budget of its own yields: the first of its
\* max_slack_steps candidates with enough touches if the search reaches it, else 0
OwnBudgetResult(k, upper) ==
    LET Found == {n \in 0 .. sr_params.max_height_of_sr_distance - 1 :
                     /\ Reaches(k, n, upper)
                     /\ TouchesAt(k, IF upper THEN UpperCandidate(k, n)
                                     ELSE LowerCandidate(k, n), upper)
                            >= sr_params.touches_for_sr}
    IN  IF Found = {} THEN Zero
        ELSE LET n == CHOOSE n \in Found : \A m \in Found : n <= m
             IN  IF upper THEN UpperCandidate(k, n) ELSE LowerCandidate(k, n)

\* C18: each of the two searches of a bar evaluates at most max_slack_steps
\* candidates and yields 0 when none of them is accepted, and the lower search has
\* its own budget of max_slack_steps candidates whatever the upper search consumed.
C18_EachSearchHasItsOwnBudget ==
    pc = "sr_returned" =>
        \A k \in 1 .. Len(df) :
            Computed(k) =>
                /\ df[k].upper_sr = OwnBudgetResult(k, TRUE)
                /\ df[k].lower_sr = OwnBudgetResult(k, FALSE)

\* The upper search of a bar used up its budget within the window's range without
\* accepting a candidate, and the lower search accepted the last candidate of its
\* own budget.
C18_Witness ==
    /\ pc = "sr_returned"
    /\ \E k \in 1 .. Len(df) :
          /\ Computed(k)
          /\ Reaches(k, sr_params.max_height_of_sr_distance, TRUE)
          /\ df[k].upper_sr = Zero
          /\ df[k].lower_sr # Zero
          /\ df[k].lower_sr = LowerCandidate(k, sr_params.max_height_of_sr_distance - 1)

\* A value with its sign changed
Neg(a) == [n |-> -a.n, d |-> a.d]

\* A frame with every price reflected about zero: the highs become the lows
Reflected(d) ==
    [k \in 1 .. Len(d) |->
        [d[k] EXCEPT !.open = -d[k].open, !.close = -d[k].close,
                     !.high = -d[k].low, !.low = -d[k].high]]

\* C19: the lower search is the mirror of the upper search: on the frame reflected
\* about zero, with the ATR unchanged, the lower level of every bar is minus its
\* upper level on the original frame and the upper level is minus its lower level,
\* and count_touches in lower mode on the reflected window and candidate equals
\* count_touches in upper mode on the original.
C19_LowerSearchMirrorsUpper ==
    pc = "sr_returned" =>
        \A k \in 1 .. Len(df) :
            Computed(k) =>
                /\ lower_sr_level(Reflected(df), sr_params, k - 1) = Neg(df[k].upper_sr)
                /\ upper_sr_level(Reflected(df), sr_params, k - 1) = Neg(df[k].lower_sr)
                /\ \A n \in 0 .. sr_params.max_height_of_sr_distance - 1 :
                      count_touches(Neg(UpperCandidate(k, n)),
                                    Window(Reflected(df), sr_params, k - 1),
                                    uRejectionFromSR(df[k].ATR, sr_params), FALSE)
                          = TouchesAt(k, UpperCandidate(k, n), TRUE)

\* A bar got an upper and a lower level at different distances from its open.
C19_Witness ==
    /\ pc = "sr_returned"
    /\ \E k \in 1 .. Len(df) :
          /\ Computed(k)
          /\ df[k].upper_sr # Zero
          /\ df[k].lower_sr # Zero
          /\ RSub(df[k].upper_sr, FromInt(df[k].open))
                # RSub(FromInt(df[k].open), df[k].lower_sr)

\* Values to overwrite a column with
OtherValues == {0, 1, 5}

\* The frame with everything overwritten by v that the SR result of bar k (1-based)
\* is claimed not to depend on: every column of the bars outside its window, bars
\* after it included, the ATR and SR columns of the window bars, and the high, low,
\* close and SR columns of bar k itself
Isolated(d, p, k, v) ==
    [j \in 1 .. Len(d) |->
        IF j = k
        THEN [d[j] EXCEPT !.high = v, !.low = v, !.close = v,
                          !.upper_sr = FromInt(v), !.lower_sr = FromInt(v),
                          !.prev_upper_sr_level = FromInt(v),
                          !.prev_lower_sr_level = FromInt(v)]
        ELSE IF j \in k - p.period_for_sr .. k - 1
        THEN [d[j] EXCEPT !.ATR = FromInt(v),
                          !.upper_sr = FromInt(v), !.lower_sr = FromInt(v),
                          !.prev_upper_sr_level = FromInt(v),
                          !.prev_lower_sr_level = FromInt(v)]
        ELSE [d[j] EXCEPT !.open = v, !.high = v, !.low = v, !.close = v,
                          !.ATR = FromInt(v),
                          !.upper_sr = FromInt(v), !.lower_sr = FromInt(v),
                          !.prev_upper_sr_level = FromInt(v),
                          !.prev_lower_sr_level = FromInt(v)]]

\* C20: the SR levels of bar i are a function of open_i, ATR_i and the OHLC values
\* of the bars of its window only: the levels the forward loop stored for the bar
\* are those computed for it alone on a frame in which every other value (later
\* bars, bars before the window, SR values of other bars) is overwritten, so the
\* order in which the bars are computed does not matter.
C20_LevelsDependOnWindowOnly ==
    pc = "sr_returned" =>
        \A k \in 1 .. Len(df) :
            Computed(k) =>
                \A v \in OtherValues :
                    /\ upper_sr_level(Isolated(df, sr_params, k, v), sr_params, k - 1)
                           = df[k].upper_sr
                    /\ lower_sr_level(Isolated(df, sr_params, k, v), sr_params, k - 1)
                           = df[k].lower_sr

\* A bar with an accepted level is followed by a computed bar with an accepted
\* level, which has a bar before its window.
C20_Witness ==
    /\ pc = "sr_returned"
    /\ \E k \in 1 .. Len(df) - 1 :
          /\ Computed(k)
          /\ k + 1 - sr_params.period_for_sr > 1
          /\ df[k].upper_sr # Zero \/ df[k].lower_sr # Zero
          /\ Computed(k + 1)
          /\ df[k + 1].upper_sr # Zero \/ df[k + 1].lower_sr # Zero

\* A row without its four SR columns
NonSR(r) ==
    [r EXCEPT !.upper_sr = Zero, !.lower_sr = Zero,
              !.prev_upper_sr_level = Zero, !.prev_lower_sr_level = Zero]

\* A step of calculate_sr_levels: from its call or its loop
SRStep ==
    /\ SRCalled \/ pc = "sr_loop"
    /\ pc' \in {"sr_loop", "sr_returned", "sr_raised"}

\* C21: calculate_sr_levels changes only the four SR columns: no step of it changes
\* the number of rows, the time, OHLC or indicator columns of a row, or an entry
\* of sr_params.
C21_OnlySRColumnsChange ==
    [][SRStep =>
          /\ sr_params' = sr_params
          /\ cols' = cols
          /\ Len(df') = Len(df)
          /\ \A k \in 1 .. Len(df) : NonSR(df'[k]) = NonSR(df[k])]_vars

\* calculate_sr_levels has returned a frame with computed indicators in which it
\* stored a level.
C21_Witness ==
    /\ pc = "sr_returned"
    /\ \E k \in 1 .. Len(df) :
          /\ Computed(k)
          /\ df[k].upper_sr # Zero \/ df[k].lower_sr # Zero
          /\ \E label \in MaLabels : df[k].MA[label] # NaN

\* C22: with min_height_of_sr_distance > 0 and slack_for_sr_atr_div > 0, a
\* non-zero upper_sr is at least min_height_of_sr_distance * uSlackForSR above the
\* open of its bar and a non-zero lower_sr is strictly below that open, so a
\* non-zero lower_sr is strictly below a non-zero upper_sr of the same bar.
C22_LevelsBracketOpen ==
    (/\ pc = "sr_returned"
     /\ sr_params.min_height_of_sr_distance > 0
     /\ sr_params.slack_for_sr_atr_div > 0) =>
        \A k \in 1 .. Len(df) :
            LET open == FromInt(df[k].open)
                margin == RMulInt(uSlackForSR(df[k].ATR, sr_params),
                                  sr_params.min_height_of_sr_distance)
            IN  /\ df[k].upper_sr # Zero =>
                      /\ RLt(open, df[k].upper_sr)
                      /\ RLe(RAdd(open, margin), df[k].upper_sr)
                /\ df[k].lower_sr # Zero => RLt(df[k].lower_sr, open)
                /\ (df[k].upper_sr # Zero /\ df[k].lower_sr # Zero) =>
                      RLt(df[k].lower_sr, df[k].upper_sr)

\* A bar got both levels, the upper one after the search had stepped up from its
\* first candidate.
C22_Witness ==
    /\ pc = "sr_returned"
    /\ \E k \in 1 .. Len(df) :
          /\ Computed(k)
          /\ df[k].lower_sr # Zero
          /\ df[k].upper_sr # Zero
          /\ RLt(HighSR0(df[k].open, df[k].ATR, sr_params), df[k].upper_sr)

\* C8: an error raised while the SR levels of one bar are computed does not abort
\* calculate_sr_levels: the call returns, the series is saved, and the bar with the
\* malformed open keeps upper_sr = lower_sr = 0.
C8_BadBarDoesNotAbort ==
    pc \in {"sr_raised", "skipped", "saved"} =>
        /\ pc = "saved"
        /\ Len(file) = Len(df)
        /\ \A k \in 1 .. Len(file) :
              file[k].bad => file[k].upper_sr = Zero /\ file[k].lower_sr = Zero

\* C9: with one of open, high, low, close absent the invocation fails with the
\* missing-field error (the ValueError of calculate_indicators) and no other one,
\* and no indicator is computed or written.
C9_MissingFieldFailsFast ==
    ~(PriceColumns \subseteq cols) =>
        /\ err \in {"none", "ValueError"}
        /\ pc \in {"lh_astype", "ci_call", "ci_raised", "skipped"}
        /\ file = <<>>
        /\ \A k \in 1 .. Len(df) : IsNaN(df[k].ATR)

====
